---- MODULE Spec2Model ----
(***************************************************************************)
(* Model of music_store_monitor.py: the daily run of                       *)
(* PriceRequiredMultiStoreMusicMonitor.check_for_updates (fetch the five   *)
(* stores, diff against the persisted snapshot, notify, persist) and the   *)
(* pure helpers it is built from.                                          *)
(*                                                                         *)
(* A Python str is modelled as a sequence of one-character strings, so     *)
(* that trimming, lowercasing, substring search, the price regexes and     *)
(* the id derivation are computed rather than assumed.  A character that   *)
(* cannot be written in a string literal is named by its code point        *)
(* ("u683c").                                                              *)
(***************************************************************************)
EXTENDS Integers, Sequences, FiniteSets, TLC

VARIABLES
    data_file,          \* the snapshot file on disk: [st, data]
    pc,                 \* position of the process inside check_for_updates
    idx,                \* get_all_products: index of the next store to fetch
    hashseed,           \* the str-hash salt of the running process
    creds,              \* config['email'] holds all three credentials
    all_products,       \* get_all_products: the mapping built so far
    fetched,            \* outcome of the last get_products_by_store call
    previous_products,  \* check_for_updates: result of load_previous_data
    all_new_products,   \* check_for_updates: result of find_new_products
    mail,               \* what send_email did in this run
    log,                \* the I/O events of this run, in order
    reported,           \* history: the listings of the notifications sent so far
    arg,                \* pure-function harness: the input under test
    ret                 \* pure-function harness: the result computed from arg

vars == <<data_file, pc, idx, hashseed, creds, all_products, fetched,
          previous_products, all_new_products, mail, log, reported, arg, ret>>

runVars == <<data_file, pc, idx, hashseed, creds, all_products, fetched,
             previous_products, all_new_products, mail, log, reported>>

-----------------------------------------------------------------------------
(* Text helpers: the str methods and regex fragments the program uses.     *)

DigitChars == {"0", "1", "2", "3", "4", "5", "6", "7", "8", "9"}

\* regex class [\d,]
DigitComma == DigitChars \cup {","}

\* what str.strip() and regex \s remove (space, tab, newline)
WhiteSpace == {" ", "\t", "\n"}

DigitVal(c) ==
    CASE c = "0" -> 0 [] c = "1" -> 1 [] c = "2" -> 2 [] c = "3" -> 3
      [] c = "4" -> 4 [] c = "5" -> 5 [] c = "6" -> 6 [] c = "7" -> 7
      [] c = "8" -> 8 [] c = "9" -> 9

DigitChar(n) ==
    CASE n = 0 -> "0" [] n = 1 -> "1" [] n = 2 -> "2" [] n = 3 -> "3"
      [] n = 4 -> "4" [] n = 5 -> "5" [] n = 6 -> "6" [] n = 7 -> "7"
      [] n = 8 -> "8" [] n = 9 -> "9"

\* str.lower() on one character (only ASCII letters have case here)
LowerChar(c) ==
    CASE c = "A" -> "a" [] c = "B" -> "b" [] c = "C" -> "c" [] c = "D" -> "d"
      [] c = "E" -> "e" [] c = "F" -> "f" [] c = "G" -> "g" [] c = "H" -> "h"
      [] c = "I" -> "i" [] c = "J" -> "j" [] c = "K" -> "k" [] c = "L" -> "l"
      [] c = "M" -> "m" [] c = "N" -> "n" [] c = "O" -> "o" [] c = "P" -> "p"
      [] c = "Q" -> "q" [] c = "R" -> "r" [] c = "S" -> "s" [] c = "T" -> "t"
      [] c = "U" -> "u" [] c = "V" -> "v" [] c = "W" -> "w" [] c = "X" -> "x"
      [] c = "Y" -> "y" [] c = "Z" -> "z" [] OTHER -> c

Lower(s) == [i \in 1..Len(s) |-> LowerChar(s[i])]

RECURSIVE LStrip(_)
LStrip(s) ==
    IF s # <<>> /\ Head(s) \in WhiteSpace THEN LStrip(Tail(s)) ELSE s

RECURSIVE RStrip(_)
RStrip(s) ==
    IF s # <<>> /\ s[Len(s)] \in WhiteSpace
    THEN RStrip(SubSeq(s, 1, Len(s) - 1))
    ELSE s

\* str.strip()
Strip(s) == RStrip(LStrip(s))

\* s.replace(c, '') for a one-character c
RemoveChar(s, c) == SelectSeq(s, LAMBDA x : x # c)

\* s.startswith(p)
StartsWith(s, p) == Len(p) <= Len(s) /\ \A k \in 1..Len(p) : s[k] = p[k]

\* p in s
Contains(s, p) ==
    \E i \in 0..(Len(s) - Len(p)) : \A k \in 1..Len(p) : s[i + k] = p[k]

\* s[:n]
Take(s, n) == SubSeq(s, 1, IF Len(s) < n THEN Len(s) ELSE n)

\* end (exclusive) of the maximal run of characters of class cls starting at i
RECURSIVE RunEnd(_, _, _)
RunEnd(s, i, cls) ==
    IF i <= Len(s) /\ s[i] \in cls THEN RunEnd(s, i + 1, cls) ELSE i

\* int() of a string of ASCII digits
RECURSIVE ParseInt(_)
ParseInt(ds) ==
    IF ds = <<>> THEN 0
    ELSE 10 * ParseInt(SubSeq(ds, 1, Len(ds) - 1)) + DigitVal(ds[Len(ds)])

\* str() of a non-negative int
RECURSIVE IntText(_)
IntText(n) ==
    IF n < 10 THEN <<DigitChar(n)>>
    ELSE IntText(n \div 10) \o <<DigitChar(n % 10)>>

\* format(n, ',') : thousands-grouped decimal
RECURSIVE Grouped(_)
Grouped(n) ==
    IF n < 1000 THEN IntText(n)
    ELSE LET r == n % 1000
             pad == IF r < 10 THEN <<"0", "0">> ELSE IF r < 100 THEN <<"0">> ELSE <<>>
         IN  Grouped(n \div 1000) \o <<",">> \o pad \o IntText(r)

-----------------------------------------------------------------------------
(* Price utilities                                                         *)

PricePlaceholder == <<"価", "u683c", "確", "認", "u4e2d">>

\* extract_price_from_text, line 630: the canonical rendering f"¥{n:,}"
FormatPrice(n) == <<"¥">> \o Grouped(n)

\* first index at or after i whose character is in cls, or Len(s)+1
RECURSIVE FindFirst(_, _, _)
FindFirst(s, i, cls) ==
    IF i > Len(s) \/ s[i] \in cls THEN i ELSE FindFirst(s, i + 1, cls)

\* dict.get(key, default)
Get(d, key, default) == IF key \in DOMAIN d THEN d[key] ELSE default

\* faulty variant: the digits after the first comma are lost
extract_price_value_firstgroup(price_str) ==
    IF price_str = <<>> THEN 0
    ELSE LET b == FindFirst(price_str, 1, DigitChars)
         IN  IF b > Len(price_str) THEN 0
             ELSE ParseInt(SubSeq(price_str, b, RunEnd(price_str, b, DigitChars) - 1))

extract_price_value(price_str) ==
    IF price_str = <<>> THEN 0
    ELSE LET b == FindFirst(price_str, 1, DigitComma)   \* re.findall(r'[\d,]+')[0]
         IN  IF b > Len(price_str) THEN 0
             ELSE LET e == RunEnd(price_str, b, DigitComma)
                      digits == RemoveChar(SubSeq(price_str, b, e - 1), ",")
                  IN  IF digits = <<>> THEN 0     \* int('') raises ValueError
                      ELSE ParseInt(digits)

HighValueThreshold == 100000

\* faulty variant: the threshold itself is excluded
is_high_value_product_loose(product) ==
    extract_price_value(Get(product, "price", <<>>)) > HighValueThreshold

is_high_value_product(product) ==
    extract_price_value(Get(product, "price", <<>>)) >= HighValueThreshold

special_keywords == <<<<"ダ", "ブ", "ル", "ト", "ッ", "プ">>, <<"ラ", "テ", "ィ", "ス">>, <<"d", "o", "u", "b", "l", "e", "t", "o", "p">>, <<"l", "a", "t", "t", "i", "c", "e">>>>

has_special_keywords(product_name) ==
    LET name_lower == Lower(product_name)
    IN  \E k \in 1..Len(special_keywords) :
            Contains(name_lower, Lower(special_keywords[k]))

-----------------------------------------------------------------------------
(* Record validator                                                        *)

\* faulty variant: the NNN円 alternative is missing
PricePatternSearch_yenonly(price) ==
    \E i \in 1..Len(price) :
        /\ price[i] = "¥"
        /\ LET j == RunEnd(price, i + 1, WhiteSpace)
           IN  j <= Len(price) /\ price[j] \in DigitComma

\* price_pattern.search(price) for r'¥\s*[\d,]+|[\d,]+円'
PricePatternSearch(price) ==
    \E i \in 1..Len(price) :
        \/ /\ price[i] = "¥"
           /\ LET j == RunEnd(price, i + 1, WhiteSpace)
              IN  j <= Len(price) /\ price[j] \in DigitComma
        \/ /\ price[i] \in DigitComma
           /\ LET j == RunEnd(price, i, DigitComma)
              IN  j <= Len(price) /\ price[j] = "円"

noise_texts == <<
    <<"m", "o", "r", "e">>, <<"読", "u307f", "込", "u307f", "u4e2d">>, <<"l", "o", "a", "d", "i", "n", "g">>, <<".", ".", ".">>, <<"u8a73", "u7d30">>, <<"d", "e", "t", "a", "i", "l">>,
    <<"も", "u3063", "u3068", "見", "る">>, <<"v", "i", "e", "w", " ", "m", "o", "r", "e">>, <<"s", "h", "o", "w", " ", "m", "o", "r", "e">>, <<"続", "u304d", "を", "見", "る">>,
    <<"n", "e", "x", "t">>, <<"p", "r", "e", "v">>, <<"p", "r", "e", "v", "i", "o", "u", "s">>, <<"u6b21", "u3078">>, <<"u524d", "u3078">>, <<"ペ", "ー", "ジ">>, <<"p", "a", "g", "e">>,
    <<"カ", "ー", "ト">>, <<"c", "a", "r", "t">>, <<"ロ", "グ", "イ", "ン">>, <<"l", "o", "g", "i", "n">>, <<"m", "e", "n", "u">>, <<"メ", "ニ", "ュ", "ー">>,
    <<"s", "e", "a", "r", "c", "h">>, <<"u691c", "u7d22">>, <<"c", "a", "t", "e", "g", "o", "r", "y">>, <<"カ", "テ", "ゴ", "リ">>, <<"h", "o", "m", "e">>, <<"ホ", "ー", "ム">>,
    <<"t", "o", "p">>, <<"ト", "ッ", "プ">>, <<"b", "a", "c", "k">>, <<"u623b", "る">>, <<"h", "e", "l", "p">>, <<"ヘ", "ル", "プ">>,
    <<"c", "o", "n", "t", "a", "c", "t">>, <<"u304a", "u554f", "u3044", "u5408", "わ", "u305b">>, <<"u", "n", "k", "n", "o", "w", "n">>, <<"u4e0d", "u660e">>, <<"n", "/", "a">>,
    <<"n", "o", "n", "e">>, <<"n", "u", "l", "l">>, <<"u9001", "料">>, <<"出", "品">>, <<"w", "e", "b", "s", "h", "o", "p">>, <<"キ", "ャ", "ン", "ペ", "ー", "ン">>,
    <<"u767a", "u9001", "予", "定">>, <<"買", "u3044", "取", "り">>, <<"u4e0b", "取", "り">>, <<"ポ", "イ", "ン", "ト">>, <<"査", "定">>,
    <<"u5546", "品", "ピ", "ッ", "ク", "ア", "ッ", "プ", "情", "u5831">>, <<"p", "i", "c", "k", "u", "p", " ", "i", "t", "e", "m">>, <<"u691c", "u7d22", "u8a72", "u5f53", "件", "u6570">>,
    <<"u5168", "1", "7", "件">>, <<"u5168", "件">>, <<"件", "u6570">> >>

PunctuationChars ==
    {".", ",", ";", ":", "!", "?", "(", ")", "-", "[", "]", "{", "}",
     "/", "*", "+", "=", "・"}

is_valid_product(product) ==
    IF DOMAIN product = {} THEN FALSE          \* not product
    ELSE
    LET name == Strip(Get(product, "name", <<>>)) IN
    IF name = <<>> \/ Len(name) < 5 THEN FALSE
    ELSE
    LET link == Get(product, "link", <<>>) IN
    IF link = <<>> \/ ~StartsWith(link, <<"h", "t", "t", "p">>) THEN FALSE
    ELSE
    LET price == Strip(Get(product, "price", <<>>)) IN
    IF price = <<>> \/ price = PricePlaceholder THEN FALSE
    ELSE
    IF ~PricePatternSearch(price) THEN FALSE
    ELSE
    LET name_lower == Lower(name) IN
    IF \E k \in 1..Len(noise_texts) :
          LET noise == noise_texts[k]
          IN  \/ name_lower = noise
              \/ StartsWith(name_lower, noise \o <<" ">>)
              \/ Contains(name_lower, noise)
    THEN FALSE
    ELSE
    IF Len(RemoveChar(name, " ")) < 5 THEN FALSE
    ELSE
    LET bare == RemoveChar(name, " ") IN
    IF \A i \in 1..Len(bare) : bare[i] \in PunctuationChars THEN FALSE
    ELSE TRUE

-----------------------------------------------------------------------------
(* The five stores, in the insertion order of self.stores                  *)

StoreOrder == <<"ikebe", "kurosawa", "shimamura", "qsic", "jguitar">>

Stores == {StoreOrder[i] : i \in 1..Len(StoreOrder)}

\* the store key as text, as it is interpolated into the id
StoreText(store) ==
    CASE store = "ikebe"     -> <<"i", "k", "e", "b", "e">>
      [] store = "kurosawa"  -> <<"k", "u", "r", "o", "s", "a", "w", "a">>
      [] store = "shimamura" -> <<"s", "h", "i", "m", "a", "m", "u", "r", "a">>
      [] store = "qsic"      -> <<"q", "s", "i", "c">>
      [] store = "jguitar"   -> <<"j", "g", "u", "i", "t", "a", "r">>

\* self.stores[store_key]['name']
StoreName(store) ==
    CASE store = "ikebe"     -> <<"イ", "ケ", "ベ", "u697d", "u5668", "店">>
      [] store = "kurosawa"  -> <<"黒", "澤", "u697d", "u5668", "店">>
      [] store = "shimamura" -> <<"島", "u6751", "u697d", "u5668">>
      [] store = "qsic"      -> <<"Q", "S", "i", "c">>
      [] store = "jguitar"   -> <<"J", "-", "G", "u", "i", "t", "a", "r">>

-----------------------------------------------------------------------------
(* The listings the model's pages can show                                 *)

NameGibson    == <<"G", "i", "b", "s", "o", "n", " ", "J", "-", "4", "5", " ", "V", "i", "n", "t", "a", "g", "e">>
NameLattice   == <<"R", "a", "m", "i", "r", "e", "z", " ", "L", "a", "t", "t", "i", "c", "e", " ", "C", "l", "a", "s", "s", "i", "c", "a", "l">>
NameDoubleTop == <<"R", "a", "m", "i", "r", "e", "z", " ", "1", "9", "7", "0", "s", " ", "ダ", "ブ", "ル", "ト", "ッ", "プ", " ", "C", "l", "a", "s", "s", "i", "c", "a", "l">>
\* longer than 5 characters, fewer than 5 of them non-space
NameSpaced    == <<"a", " ", "b", " ", "c", " ", "d">>

LinkGibson    == <<"h", "t", "t", "p", "s", ":", "/", "/", "x", "/", "1">>
LinkLattice   == <<"h", "t", "t", "p", "s", ":", "/", "/", "x", "/", "2">>
LinkDoubleTop == <<"h", "t", "t", "p", "s", ":", "/", "/", "x", "/", "3">>
LinkSpaced    == <<"h", "t", "t", "p", "s", ":", "/", "/", "x", "/", "4">>

\* prices on both sides of the notification threshold
PriceValues == {99999, 100000}

\* the candidates (name, price, link) a store's parser can extract from a page
PageCandidates(store) ==
    CASE store = "ikebe" ->
            {[name |-> NameGibson, price |-> FormatPrice(v), link |-> LinkGibson]
                : v \in PriceValues}
            \cup
            {[name |-> NameLattice, price |-> FormatPrice(99999),
              link |-> LinkLattice]}
      [] store = "kurosawa" ->
            {[name |-> NameLattice, price |-> FormatPrice(100000),
              link |-> LinkLattice]}
      [] store = "shimamura" ->
            {[name |-> NameSpaced, price |-> FormatPrice(100000),
              link |-> LinkSpaced],
             [name |-> NameGibson, price |-> <<>>, link |-> LinkGibson]}
      [] store = "qsic" ->
            {[name |-> NameDoubleTop, price |-> FormatPrice(100000),
              link |-> LinkDoubleTop]}
      [] OTHER -> {}

\* at most this many records in the snapshot of one run
MaxRecords == 2

\* the candidate lists of at most n entries
Pages(store, n) ==
    UNION {[1..k -> PageCandidates(store)] : k \in 0..n}

-----------------------------------------------------------------------------
(* Record construction                                                     *)

\* The salts a Python process can draw for str hashing; hash() of the same
\* text differs between processes with different salts.
HashSeeds == {"seedA", "seedB"}

\* str(hash(text)) for a text outside the table below: some integer that
\* depends on the salt and on the text
OtherHashText(seed, text) ==
    IF seed = "seedA"
    THEN IntText(1000003 * Len(text) + 71)
    ELSE <<"-">> \o IntText(2000029 * Len(text) + 13)

\* str(hash(text)) in a process whose salt is seed
PyHashText(seed, text) ==
    CASE seed = "seedA" /\ text = NameGibson \o LinkGibson
            -> <<"7", "7", "3", "1", "9", "3", "4", "7", "2", "1", "8", "4", "6", "7", "7", "9", "8", "2", "3">>
      [] seed = "seedA" /\ text = NameLattice \o LinkLattice
            -> <<"-", "3", "4", "6", "9", "2", "7", "9", "5", "1", "4", "0", "0", "3", "2", "1", "7", "6", "8", "6">>
      [] seed = "seedA" /\ text = NameDoubleTop \o LinkDoubleTop
            -> <<"-", "8", "8", "1", "7", "2", "6", "4", "5", "4", "6", "3", "3", "2", "5", "2", "5", "2">>
      [] seed = "seedA" /\ text = NameSpaced \o LinkSpaced
            -> <<"3", "3", "8", "5", "3", "6", "1", "2", "6", "5", "9", "2", "7", "8", "3", "8", "2", "1", "2">>
      [] seed = "seedB" /\ text = NameSpaced \o LinkSpaced
            -> <<"-", "4", "2", "3", "7", "7", "0", "7", "0", "4", "4", "8", "9", "5", "2", "4", "3", "9", "2", "2">>
      [] seed = "seedB" /\ text = NameGibson \o LinkGibson
            -> <<"-", "1", "4", "0", "5", "2", "3", "8", "8", "1", "7", "4", "3", "6", "0", "2", "7", "5", "3", "4">>
      [] seed = "seedB" /\ text = NameLattice \o LinkLattice
            -> <<"5", "9", "3", "9", "4", "8", "2", "2", "7", "5", "5", "0", "0", "0", "1", "2", "3", "4", "5">>
      [] seed = "seedB" /\ text = NameDoubleTop \o LinkDoubleTop
            -> <<"2", "6", "8", "5", "8", "2", "1", "6", "5", "7", "7", "3", "6", "3", "3", "8", "7", "1", "7">>
      [] OTHER -> OtherHashText(seed, text)

IdLen == 15

\* salt is the hash salt of the calling process.  found_date (the wall
\* clock at extraction) is left out: nothing reads it.
create_product_info(salt, store, name, price, link, store_name) ==
    LET product_id ==
            Take(RemoveChar(StoreText(store) \o <<"_">>
                              \o PyHashText(salt, name \o link), "-"),
                 IdLen)
    IN  [id         |-> product_id,
         name       |-> Strip(name),
         price      |-> IF price # <<>> THEN price ELSE PricePlaceholder,
         link       |-> link,
         store      |-> store,
         store_name |-> store_name]

\* every record a parser can build from the model's pages
BuildableProducts ==
    UNION {UNION {{create_product_info(salt, store, c.name, c.price, c.link,
                                       StoreName(store))
                      : c \in PageCandidates(store)}
                  : store \in Stores}
           : salt \in HashSeeds}

\* is_valid_product, tabulated once over the buildable records
ValidProducts == {p \in BuildableProducts : is_valid_product(p)}

\* faulty variant: every candidate becomes a record
RECURSIVE ParseCandidates_keepall(_, _, _)
ParseCandidates_keepall(salt, store, cands) ==
    IF cands = <<>> THEN <<>>
    ELSE LET c == Head(cands)
         IN  <<create_product_info(salt, store, c.name, c.price, c.link,
                                   StoreName(store))>>
                \o ParseCandidates_keepall(salt, store, Tail(cands))

\* The part every parser shares.  A candidate for which no price was found
\* (price None, modelled as the empty text) is skipped; otherwise the record
\* is built and kept when it is valid.
RECURSIVE ParseCandidates(_, _, _)
ParseCandidates(salt, store, cands) ==
    IF cands = <<>> THEN <<>>
    ELSE LET c == Head(cands)
             product == create_product_info(salt, store, c.name, c.price,
                                            c.link, StoreName(store))
         IN  (IF c.price = <<>> \/ c.price = PricePlaceholder THEN <<>>
              ELSE IF product \in ValidProducts THEN <<product>> ELSE <<>>)
                \o ParseCandidates(salt, store, Tail(cands))

-----------------------------------------------------------------------------
(* Snapshots: a dict store -> list of records is a function whose domain   *)
(* is the set of keys; keys are iterated in store order.                   *)

EmptyDict == <<>>

RECURSIVE SumLen(_, _)
SumLen(d, keys) ==
    IF keys = {} THEN 0
    ELSE LET k == CHOOSE x \in keys : TRUE
         IN  Len(d[k]) + SumLen(d, keys \ {k})

\* sum(len(products) for products in d.values())
TotalLen(d) == SumLen(d, DOMAIN d)

\* faulty variant: compares with the ids of every store of previous
find_new_products_anystore(current, previous) ==
    LET previous_ids(store_key) ==
            UNION {{previous[t][i].id :
                        i \in 1..Len(previous[t])} :
                   t \in DOMAIN previous}
        new_products(store_key) ==
            SelectSeq(current[store_key],
                      LAMBDA p : p.id \notin previous_ids(store_key))
    IN  [store_key \in {s \in DOMAIN current : new_products(s) # <<>>}
            |-> new_products(store_key)]

\* faulty variant: compares whole records instead of ids
find_new_products_wholerecord(current, previous) ==
    LET previous_store_products(store_key) ==
            Get(previous, store_key, <<>>)
        new_products(store_key) ==
            SelectSeq(current[store_key],
                      LAMBDA p : \A i \in 1..Len(previous_store_products(store_key)) :
                                    previous_store_products(store_key)[i] # p)
    IN  [store_key \in {s \in DOMAIN current : new_products(s) # <<>>}
            |-> new_products(store_key)]

find_new_products(current, previous) ==
    LET previous_store_products(store_key) ==
            Get(previous, store_key, <<>>)
        previous_ids(store_key) ==
            {previous_store_products(store_key)[i].id :
                i \in 1..Len(previous_store_products(store_key))}
        new_products(store_key) ==
            SelectSeq(current[store_key],
                      LAMBDA p : p.id \notin previous_ids(store_key))
    IN  [store_key \in {s \in DOMAIN current : new_products(s) # <<>>}
            |-> new_products(store_key)]

\* faulty variant: keeps only the first high-value record of a store
filter_high_value_products_firstonly(all_new) ==
    LET high_value_products(store_key) ==
            Take(SelectSeq(all_new[store_key], is_high_value_product), 1)
    IN  [store_key \in {s \in DOMAIN all_new : high_value_products(s) # <<>>}
            |-> high_value_products(store_key)]

filter_high_value_products(all_new) ==
    LET high_value_products(store_key) ==
            SelectSeq(all_new[store_key], is_high_value_product)
    IN  [store_key \in {s \in DOMAIN all_new : high_value_products(s) # <<>>}
            |-> high_value_products(store_key)]

\* the entries detect_special_keywords appends for one store
RECURSIVE SpecialOfStore(_, _)
SpecialOfStore(store_key, products) ==
    IF products = <<>> THEN <<>>
    ELSE LET product == Head(products)
         IN  (IF has_special_keywords(product.name)
              THEN <<[store |-> StoreName(store_key),
                      name  |-> product.name,
                      price |-> product.price]>>
              ELSE <<>>)
                \o SpecialOfStore(store_key, Tail(products))

RECURSIVE SpecialFrom(_, _)
SpecialFrom(d, i) ==
    IF i > Len(StoreOrder) THEN <<>>
    ELSE (IF StoreOrder[i] \in DOMAIN d
          THEN SpecialOfStore(StoreOrder[i], d[StoreOrder[i]])
          ELSE <<>>)
            \o SpecialFrom(d, i + 1)

detect_special_keywords(all_new) == SpecialFrom(all_new, 1)

-----------------------------------------------------------------------------
(* Notification                                                            *)

\* The lines of the message body, one record per line that carries data or
\* structure; the time stamp and the fixed footer texts are left out.
\* the highlight section: lines 791-799
HighlightSection(special_keyword_products) ==
    IF special_keyword_products = <<>> THEN <<>>
    ELSE <<[kind |-> "highlight_title"]>>
            \o [k \in 1..Len(special_keyword_products) |->
                    [kind  |-> "special",
                     store |-> special_keyword_products[k].store,
                     name  |-> special_keyword_products[k].name,
                     price |-> special_keyword_products[k].price]]
            \o <<[kind |-> "rule"]>>

\* the lines of one product in its store's listing: lines 810-818
RECURSIVE ProductLines(_, _)
ProductLines(new_products, i) ==
    IF i > Len(new_products) THEN <<>>
    ELSE LET product == new_products[i]
         IN  <<[kind |-> "item", i |-> i, name |-> product.name],
               [kind |-> "price", price |-> product.price,
                value |-> extract_price_value(product.price)]>>
             \o (IF has_special_keywords(product.name)
                 THEN <<[kind |-> "keyword_mark"]>> ELSE <<>>)
             \o <<[kind |-> "link", link |-> product.link]>>
             \o ProductLines(new_products, i + 1)

\* the per-store sections, in the key order of filtered_products: lines 805-820
RECURSIVE StoreSections(_, _)
StoreSections(filtered_products, k) ==
    IF k > Len(StoreOrder) THEN <<>>
    ELSE (IF StoreOrder[k] \in DOMAIN filtered_products
          THEN <<[kind  |-> "store_header",
                  store |-> StoreName(StoreOrder[k]),
                  count |-> Len(filtered_products[StoreOrder[k]])]>>
               \o ProductLines(filtered_products[StoreOrder[k]], 1)
          ELSE <<>>)
            \o StoreSections(filtered_products, k + 1)

\* faulty variant: the highlight section comes after the store sections
email_body_highlightlast(filtered_products, special_keyword_products, total_new) ==
    <<[kind |-> "summary", total |-> total_new], [kind |-> "rule"]>>
        \o StoreSections(filtered_products, 1)
        \o HighlightSection(special_keyword_products)
        \o <<[kind |-> "rule"]>>

\* body: lines 787-827
email_body(filtered_products, special_keyword_products, total_new) ==
    HighlightSection(special_keyword_products)
        \o <<[kind |-> "summary", total |-> total_new], [kind |-> "rule"]>>
        \o StoreSections(filtered_products, 1)
        \o <<[kind |-> "rule"]>>

NoMail ==
    [outcome |-> "none", total |-> 0, special |-> <<>>, filtered |-> EmptyDict,
     body |-> <<>>]

\* The outcomes of send_email:
\*   "incomplete"  a credential is missing: logged, nothing is built
\*   "skipped"     no new record reaches the threshold: logged, nothing is sent
\*   "sent"        the message went through the SMTP session
\*   "failed"      the SMTP session raised: caught and logged
\* total is the count in the subject; special and filtered are what the body
\* is built from; body is the text handed to the transport.
\* faulty variant: counts every new record, not only the high-value ones
send_email_countsall(all_new, complete, smtp_ok) ==
    IF ~complete
    THEN [NoMail EXCEPT !.outcome = "incomplete"]
    ELSE LET filtered_products == filter_high_value_products(all_new)
             total_new == TotalLen(all_new)
         IN  IF total_new = 0
             THEN [NoMail EXCEPT !.outcome = "skipped"]
             ELSE [outcome  |-> IF smtp_ok THEN "sent" ELSE "failed",
                   total    |-> total_new,
                   special  |-> detect_special_keywords(filtered_products),
                   filtered |-> filtered_products,
                   body     |-> email_body(filtered_products,
                                    detect_special_keywords(filtered_products),
                                    total_new)]

send_email(all_new, complete, smtp_ok) ==
    IF ~complete
    THEN [NoMail EXCEPT !.outcome = "incomplete"]
    ELSE LET filtered_products == filter_high_value_products(all_new)
             total_new == TotalLen(filtered_products)
         IN  IF total_new = 0
             THEN [NoMail EXCEPT !.outcome = "skipped"]
             ELSE [outcome  |-> IF smtp_ok THEN "sent" ELSE "failed",
                   total    |-> total_new,
                   special  |-> detect_special_keywords(filtered_products),
                   filtered |-> filtered_products,
                   body     |-> email_body(filtered_products,
                                    detect_special_keywords(filtered_products),
                                    total_new)]

-----------------------------------------------------------------------------
(* State store                                                             *)

\* data_file.st: "missing" (no file), "ok" (holds the JSON of data),
\* "corrupt" (exists, json.load raises on it)
NoFile == [st |-> "missing", data |-> EmptyDict]

\* read_ok = FALSE: open or json.load raises on an existing file
load_previous_data(file, read_ok) ==
    IF file.st = "ok" /\ read_ok THEN file.data ELSE EmptyDict

LoadResult(file, read_ok) ==
    IF file.st = "missing" THEN "missing"
    ELSE IF file.st = "ok" /\ read_ok THEN "ok" ELSE "error"

\* The outcomes of the write in save_data:
\*   "ok"           open, dump and close succeed
\*   "open_error"   open(..., 'w') raises: the file is untouched
\*   "write_error"  open truncated the file, then dump or close raises
WriteOutcomes == {"ok", "open_error", "write_error"}

save_data(file, products, w) ==
    CASE w = "ok"          -> [st |-> "ok", data |-> products]
      [] w = "open_error"  -> file
      [] w = "write_error" -> [st |-> "corrupt", data |-> EmptyDict]

-----------------------------------------------------------------------------
(* get_all_products, one store per step                                    *)

\* The outcomes of get_products_by_store inside the try of get_all_products:
\*   "ok"      status 200 and the parser returned its list
\*   "raised"  requests.get raised, or status_code != 200 raised the
\*             "HTTP error" exception, or the parser raised; the one except
\*             clause of get_all_products handles the three alike
FetchOutcomes == {"ok", "raised"}

\* candidates is the number of candidates the parser extracted from the page
NoFetch ==
    [store |-> "none", outcome |-> "none", candidates |-> 0, products |-> <<>>]

\* faulty variant: a failing store gets no entry
store_result_dropkey(products_so_far, store_key, outcome, products) ==
    IF outcome = "ok"
    THEN (store_key :> products) @@ products_so_far
    ELSE products_so_far

\* the try/except around one store: all_products[store_key] = products or []
store_result(products_so_far, store_key, outcome, products) ==
    IF outcome = "ok"
    THEN (store_key :> products) @@ products_so_far
    ELSE (store_key :> <<>>) @@ products_so_far

-----------------------------------------------------------------------------
(* check_for_updates                                                       *)

\* faulty variant: all() in place of any()
no_products_somestore(current_products) ==
    \E s \in DOMAIN current_products : current_products[s] = <<>>

\* not any(current_products.values())
no_products(current_products) ==
    \A s \in DOMAIN current_products : current_products[s] = <<>>

\* faulty variant: an SMTP failure escapes send_email and ends the run
after_send_email_propagate(outcome) ==
    IF outcome = "failed" THEN "done" ELSE "save"

\* send_email catches every exception, so check_for_updates goes on to
\* save_data whatever send_email did
after_send_email(outcome) == "save"

-----------------------------------------------------------------------------
(* History of the notifications sent, kept across runs.  The program has   *)
(* no such memory: the record only observes what send_email did, and only  *)
(* in the behaviours that start with it switched on.                       *)

\* a listing of a source, whatever id a run computes for it
ListingKey(store_key, product) == <<store_key, product.name, product.link>>

ListingsIn(products_by_store) ==
    UNION { { ListingKey(s, products_by_store[s][i]) :
                 i \in 1..Len(products_by_store[s]) } :
            s \in DOMAIN products_by_store }

\*   ever   listings included in a sent notification so far
\*   again  listings included in a sent notification after an earlier one
NoHistory == [on |-> FALSE, ever |-> {}, again |-> {}]

EmptyHistory == [NoHistory EXCEPT !.on = TRUE]

RecordSent(history, sent_mail) ==
    IF ~history.on \/ sent_mail.outcome # "sent"
    THEN history
    ELSE LET listed == ListingsIn(sent_mail.filtered)
         IN  [on    |-> TRUE,
              ever  |-> history.ever \cup listed,
              again |-> history.again \cup (history.ever \cap listed)]

RunInitWith(history) ==
    /\ data_file = NoFile
    /\ pc = "idle"
    /\ idx = 1
    /\ hashseed = "seedA"
    /\ creds = TRUE
    /\ all_products = EmptyDict
    /\ fetched = NoFetch
    /\ previous_products = EmptyDict
    /\ all_new_products = EmptyDict
    /\ mail = NoMail
    /\ log = <<>>
    /\ reported = history

RunInit == RunInitWith(NoHistory)

\* A new process starts: it draws its hash salt, loads its configuration
\* and enters check_for_updates.
StartRun ==
    /\ pc \in {"idle", "done"}
    /\ pc' = "fetch"
    /\ idx' = 1
    /\ hashseed' \in HashSeeds
    /\ creds' \in BOOLEAN
    /\ all_products' = EmptyDict
    /\ fetched' = NoFetch
    /\ previous_products' = EmptyDict
    /\ all_new_products' = EmptyDict
    /\ mail' = NoMail
    /\ log' = <<>>
    /\ UNCHANGED <<data_file, reported, arg, ret>>

\* One iteration of the loop of get_all_products.
FetchStore ==
    /\ pc = "fetch"
    /\ LET store_key == StoreOrder[idx]
       IN  \E outcome \in FetchOutcomes :
           \E page \in Pages(store_key, MaxRecords - TotalLen(all_products)) :
              /\ outcome # "ok" => page = <<>>
              /\ LET products == ParseCandidates(hashseed, store_key, page)
                 IN  /\ fetched' = [store      |-> store_key,
                                    outcome    |-> outcome,
                                    candidates |-> Len(page),
                                    products   |-> products]
                     /\ all_products' =
                            store_result(all_products, store_key, outcome, products)
    /\ IF idx < Len(StoreOrder)
       THEN idx' = idx + 1 /\ pc' = "fetch"
       ELSE idx' = idx /\ pc' = "check"
    /\ UNCHANGED <<data_file, hashseed, creds, previous_products,
                   all_new_products, mail, log, reported, arg, ret>>

\* Lines 855-857: nothing was fetched anywhere, the run returns.
ReturnEmpty ==
    /\ pc = "check"
    /\ no_products(all_products)
    /\ pc' = "done"
    /\ fetched' = NoFetch
    /\ UNCHANGED <<data_file, idx, hashseed, creds, all_products,
                   previous_products, all_new_products, mail, log, reported,
                   arg, ret>>

\* Lines 859-860: load the previous snapshot and diff.
LoadAndDiff ==
    /\ pc = "check"
    /\ ~no_products(all_products)
    /\ \E read_ok \in BOOLEAN :
          /\ previous_products' = load_previous_data(data_file, read_ok)
          /\ log' = Append(log, [op |-> "load",
                                 result |-> LoadResult(data_file, read_ok)])
    /\ all_new_products' = find_new_products(all_products, previous_products')
    /\ pc' = "notify"
    /\ fetched' = NoFetch
    /\ UNCHANGED <<data_file, idx, hashseed, creds, all_products,
                   mail, reported, arg, ret>>

\* Lines 862-884: send_email when anything is new.
Notify ==
    /\ pc = "notify"
    /\ IF all_new_products # EmptyDict
       THEN \E smtp_ok \in BOOLEAN :
              /\ mail' = send_email(all_new_products, creds, smtp_ok)
              /\ log' = Append(log, [op |-> "send_email",
                                     result |-> mail'.outcome])
       ELSE mail' = NoMail /\ log' = log
    /\ pc' = after_send_email(mail'.outcome)
    /\ reported' = RecordSent(reported, mail')
    /\ UNCHANGED <<data_file, idx, hashseed, creds, all_products, fetched,
                   previous_products, all_new_products, arg, ret>>

\* Line 886: save_data(current_products).
Save ==
    /\ pc = "save"
    /\ \E w \in WriteOutcomes :
          /\ data_file' = save_data(data_file, all_products, w)
          /\ log' = Append(log, [op |-> "save", result |-> w])
    /\ pc' = "done"
    /\ UNCHANGED <<idx, hashseed, creds, all_products, fetched, reported,
                   previous_products, all_new_products, mail, arg, ret>>

-----------------------------------------------------------------------------
(* Harness for the pure functions: arg is drawn in the initial state, one  *)
(* action applies the function and stores the result in ret.  The run      *)
(* variables stay at their initial values.                                 *)

NoArg == [kind |-> "none"]
NoRet == [st |-> "none"]

Init == RunInit /\ arg = NoArg /\ ret = NoRet

Next == StartRun \/ FetchStore \/ ReturnEmpty \/ LoadAndDiff \/ Notify \/ Save

Spec == Init /\ [][Next]_vars

\* ---- is_valid_product ----

\* marks a key the candidate dict does not have
Absent == <<"absent">>

CandidateNames ==
    {Absent, <<>>, <<"G", "u", "i", "t">>, <<" ", " ", "G", "u", "i", "t", " ", " ", " ">>, <<"G", "i", "b", "s", "o", "n", " ", "J", "-", "4", "5", " ", "V", "i", "n", "t", "a", "g", "e">>, <<"*", "*", "*", "-", "-", "-", "/", "/", "/">>,
     <<"a", " ", "b", " ", "c", " ", "d">>, <<"a", " ", "b", " ", "c", " ", "d", " ", "e">>, <<"G", "u", "i", "t", "a", "r", " ", "D", "E", "T", "A", "I", "L", " ", "V", "i", "e", "w">>, <<"l", "o", "a", "d", "i", "n", "g">>,
     <<"Y", "A", "M", "A", "H", "A", " ", "G", "C", "-", "T", "O", "P", " ", "8", "2">>, <<"R", "a", "m", "i", "r", "e", "z", " ", "1", "9", "7", "0", "s", " ", "ダ", "ブ", "ル", "ト", "ッ", "プ", " ", "C", "l", "a", "s", "s", "i", "c", "a", "l">>,
     <<"R", "a", "m", "i", "r", "e", "z", " ", "L", "a", "t", "t", "i", "c", "e", " ", "C", "l", "a", "s", "s", "i", "c", "a", "l">>, <<"M", "a", "r", "t", "i", "n", " ", "d", "o", "u", "b", "l", "e", "t", "o", "p", " ", "D", "-", "2", "8">>,
     <<"ラ", "テ", "ィ", "ス", "構", "u9020", " ", "ク", "ラ", "シ", "ッ", "ク">>, <<"u9001", "料", "u7121", "料", " ", "ギ", "タ", "ー">>,
     <<"S", "m", "a", "l", "l", "m", "a", "n", " ", "D", "O", "U", "B", "L", "E", "T", "O", "P", " ", "2", "0", "0", "5">>, <<"ダ", "ブ", "ル", "ト", "ッ", "プ", " ", "ク", "ラ", "シ", "ッ", "ク", "ギ", "タ", "ー">>}

CandidateLinks ==
    {Absent, <<>>, <<"w", "w", "w", ".", "e", "x", "a", "m", "p", "l", "e", ".", "c", "o", "m", "/", "x">>, <<"h", "t", "t", "p", "s", ":", "/", "/", "x", "/", "1">>, <<"h", "t", "t", "p", ":", "/", "/", "x", "/", "2">>,
     <<"f", "t", "p", ":", "/", "/", "x", "/", "3">>}

CandidatePrices ==
    {Absent, <<>>, <<"価", "u683c", "確", "認", "u4e2d">>, <<"¥", "1", "2", "0", ",", "0", "0", "0">>, <<"1", "2", "0", ",", "0", "0", "0", "円">>, <<"1", "2", "0", "0", "0", "0">>,
     <<" ", " ", "¥", " ", "5", ",", "0", "0", "0", " ", " ">>, <<"¥">>, <<"¥", "A", "S", "K">>, <<",", "円">>, <<"u6642", "価">>}

Field(key, value) == IF value = Absent THEN EmptyDict ELSE (key :> value)

Candidates ==
    {Field("name", n) @@ Field("link", l) @@ Field("price", p) :
        n \in CandidateNames, l \in CandidateLinks, p \in CandidatePrices}

ValidInit ==
    /\ RunInit
    /\ arg \in {[kind |-> "candidate", product |-> c] : c \in Candidates}
    /\ ret = NoRet

Validate ==
    /\ arg.kind = "candidate"
    /\ ret.st = "none"
    /\ ret' = [st |-> "validated", valid |-> is_valid_product(arg.product)]
    /\ UNCHANGED <<arg, runVars>>

SpecValid == ValidInit /\ [][Validate]_vars

\* ---- find_new_products, filter_high_value_products ----

MaxCurrentLen == 2
MaxPreviousLen == 1

HarnessStores == {"ikebe", "qsic"}

HarnessRecord(id, name, v, link) ==
    [id |-> id, name |-> name, price |-> FormatPrice(v), link |-> link]

HarnessCurrentRecords ==
    {HarnessRecord(<<"a", "1">>, NameGibson, 99999, LinkGibson),
     HarnessRecord(<<"a", "1">>, NameGibson, 100000, LinkGibson),
     HarnessRecord(<<"a", "2">>, NameLattice, 100000, LinkLattice)}

HarnessPreviousRecords ==
    {HarnessRecord(<<"a", "1">>, NameGibson, 99999, LinkGibson),
     HarnessRecord(<<"a", "2">>, NameLattice, 100000, LinkLattice)}

ListsOf(S, n) == UNION {[1..k -> S] : k \in 0..n}

\* the dicts over the harness stores whose lists come from lists
DictsOf(lists) ==
    UNION {[keys -> lists] : keys \in SUBSET HarnessStores}

NoveltyInit ==
    /\ RunInit
    /\ arg \in {[kind |-> "snapshots", current |-> c, previous |-> p] :
                  c \in DictsOf(ListsOf(HarnessCurrentRecords, MaxCurrentLen)),
                  p \in DictsOf(ListsOf(HarnessPreviousRecords, MaxPreviousLen))}
    /\ ret = NoRet

ApplyFindNew ==
    /\ arg.kind = "snapshots"
    /\ ret.st = "none"
    /\ ret' = [st |-> "found",
               new |-> find_new_products(arg.current, arg.previous),
               high |-> EmptyDict]
    /\ UNCHANGED <<arg, runVars>>

ApplyFilter ==
    /\ arg.kind = "snapshots"
    /\ ret.st = "found"
    /\ ret' = [ret EXCEPT !.st = "filtered",
                          !.high = filter_high_value_products(ret.new)]
    /\ UNCHANGED <<arg, runVars>>

NoveltyNext == ApplyFindNew \/ ApplyFilter

SpecNovelty == NoveltyInit /\ [][NoveltyNext]_vars

-----------------------------------------------------------------------------
(* Vocabulary of the properties, stated without the operators they check   *)

MinOf(S) == CHOOSE x \in S : \A y \in S : x <= y
MaxOf(S) == CHOOSE x \in S : \A y \in S : y <= x

\* s without its leading and trailing whitespace
Trimmed(s) ==
    LET keep == {i \in 1..Len(s) : s[i] \notin WhiteSpace}
    IN  IF keep = {} THEN <<>> ELSE SubSeq(s, MinOf(keep), MaxOf(keep))

\* out is exactly the elements of in that satisfy Keep, in the order of in
IsSelection(out, in, Keep(_)) ==
    LET kept == {i \in 1..Len(in) : Keep(in[i])}
    IN  /\ Len(out) = Cardinality(kept)
        /\ \A i \in kept : out[Cardinality({j \in kept : j <= i})] = in[i]

\* the ids of the previous snapshot for one store
IdsOf(snapshot, store) ==
    IF store \in DOMAIN snapshot
    THEN {snapshot[store][i].id : i \in 1..Len(snapshot[store])}
    ELSE {}

\* the amount a canonical price string was rendered from
YenOf(price) == CHOOSE v \in PriceValues : FormatPrice(v) = price

IsHighValue(r) == YenOf(r.price) >= 100000

\* number of high-value records over all stores of a dict
HighCount(d) ==
    Cardinality(UNION {{<<s, i>> : i \in {k \in 1..Len(d[s]) : IsHighValue(d[s][k])}}
                          : s \in DOMAIN d})

LastLog == log[Len(log)]

Saved == log # <<>> /\ LastLog.op = "save"

-----------------------------------------------------------------------------
(* C1: every run of check_for_updates ends with the current snapshot       *)
(* persisted, whatever the sources produced.  As stated this fails: a run  *)
(* in which every source yields an empty list returns before save_data.    *)
C1_AlwaysPersists == pc = "done" => Saved

(* C1 (amended): every run in which at least one source yielded a record   *)
(* ends with save_data(current snapshot) as its last step, whatever the    *)
(* notification did; when the write succeeds the file holds exactly the    *)
(* current snapshot.                                                       *)
C1_PersistsWhenFetched ==
    (pc = "done" /\ \E s \in DOMAIN all_products : all_products[s] # <<>>)
        => /\ Saved
           /\ LastLog.result = "ok"
                => data_file = [st |-> "ok", data |-> all_products]

\* scenario B: nothing is new, no mail, the snapshot is written all the same
C1_Witness ==
    /\ pc = "done"
    /\ previous_products # EmptyDict
    /\ all_new_products = EmptyDict
    /\ mail.outcome = "none"
    /\ Saved /\ LastLog.result = "ok"
    /\ data_file.data = all_products
    /\ all_products["ikebe"] # <<>>

-----------------------------------------------------------------------------
(* C2: find_new_products returns, per source of current, exactly the       *)
(* records whose id is not among the previous ids of that source (none     *)
(* when the source is absent from previous), in current order, and omits   *)
(* the sources with no such record.                                        *)
C2_NoveltyIsIdDifference ==
    ret.st \in {"found", "filtered"} =>
        /\ DOMAIN ret.new \subseteq DOMAIN arg.current
        /\ \A s \in DOMAIN arg.current :
              LET IsNew(r) == r.id \notin IdsOf(arg.previous, s)
              IN  /\ s \in DOMAIN ret.new
                        <=> \E i \in 1..Len(arg.current[s]) : IsNew(arg.current[s][i])
                  /\ s \in DOMAIN ret.new
                        => IsSelection(ret.new[s], arg.current[s], IsNew)
        /\ arg.previous = EmptyDict
              => \A s \in DOMAIN arg.current :
                    arg.current[s] # <<>>
                        => s \in DOMAIN ret.new /\ ret.new[s] = arg.current[s]
        /\ \A s \in DOMAIN arg.current :
              IdsOf(arg.current, s) = IdsOf(arg.previous, s)
                  => s \notin DOMAIN ret.new

\* the known record is dropped and the new one kept, and a source absent
\* from previous keeps its whole list
C2_Witness ==
    /\ ret.st = "found"
    /\ DOMAIN arg.current = {"ikebe", "qsic"}
    /\ DOMAIN arg.previous = {"ikebe"}
    /\ Len(arg.current["ikebe"]) = 2
    /\ arg.current["ikebe"][1].id = <<"a", "1">>
    /\ arg.current["ikebe"][2].id = <<"a", "2">>
    /\ IdsOf(arg.previous, "ikebe") = {<<"a", "1">>}
    /\ ret.new["ikebe"] = <<arg.current["ikebe"][2]>>
    /\ Len(arg.current["qsic"]) = 2
    /\ ret.new["qsic"] = arg.current["qsic"]

-----------------------------------------------------------------------------
(* C3: a message reaches the mail transport only when the number of        *)
(* high-value (>= 100000) new records over all sources is positive; when   *)
(* it is zero send_email skips and the run goes on to save_data.           *)
C3_SendOnlyHighValue ==
    /\ mail.outcome \in {"sent", "failed"} => HighCount(all_new_products) > 0
    /\ (pc = "done" /\ all_new_products # EmptyDict
            /\ HighCount(all_new_products) = 0)
          => mail.outcome \in {"skipped", "incomplete"} /\ Saved

\* scenario C: the only new records are below the threshold
C3_Witness ==
    /\ pc = "done"
    /\ all_new_products # EmptyDict
    /\ HighCount(all_new_products) = 0
    /\ creds
    /\ mail.outcome = "skipped"
    /\ Saved

-----------------------------------------------------------------------------
(* C4: filter_high_value_products returns, per source, exactly the records *)
(* priced at 100000 or more, in order, and drops the sources left empty.   *)
C4_HighValueIsPriceSelection ==
    ret.st = "filtered" =>
        /\ DOMAIN ret.high \subseteq DOMAIN ret.new
        /\ \A s \in DOMAIN ret.new :
              /\ s \in DOMAIN ret.high
                    <=> \E i \in 1..Len(ret.new[s]) : IsHighValue(ret.new[s][i])
              /\ s \in DOMAIN ret.high
                    => IsSelection(ret.high[s], ret.new[s], IsHighValue)

\* one source loses its 99,999 record and keeps its 100,000 record, the
\* other source has only a 99,999 record and is dropped
C4_Witness ==
    /\ ret.st = "filtered"
    /\ DOMAIN ret.new = {"ikebe", "qsic"}
    /\ Len(ret.new["ikebe"]) = 2
    /\ YenOf(ret.new["ikebe"][1].price) = 99999
    /\ YenOf(ret.new["ikebe"][2].price) = 100000
    /\ YenOf(ret.new["qsic"][1].price) = 99999
    /\ Len(ret.new["qsic"]) = 1
    /\ DOMAIN ret.high = {"ikebe"}
    /\ ret.high["ikebe"] = <<ret.new["ikebe"][2]>>

-----------------------------------------------------------------------------
(* C5: in a run, a new record is keyword-flagged exactly when its          *)
(* lowercased name contains a special keyword, whatever its price.  The    *)
(* code flags only among the high-value records.                           *)
C5_KeywordFlagIgnoresPrice ==
    mail.outcome \in {"sent", "failed"} =>
        \A s \in DOMAIN all_new_products :
            \A i \in 1..Len(all_new_products[s]) :
                LET r == all_new_products[s][i]
                    flagged == \E k \in 1..Len(mail.special) :
                                  mail.special[k] = [store |-> StoreName(s),
                                                     name  |-> r.name,
                                                     price |-> r.price]
                IN  flagged <=> \E k \in 1..Len(special_keywords) :
                                    Contains(Lower(r.name), special_keywords[k])

-----------------------------------------------------------------------------
(* C6: a record whose id is in the previous snapshot (as loaded) for its   *)
(* source is in none of: the novelty output, the high-value set, the       *)
(* keyword list, even when its price rose to the threshold.                *)
C6_KnownIdsNeverReported ==
    pc \in {"notify", "save", "done"} =>
        /\ \A s \in DOMAIN all_new_products :
              \A i \in 1..Len(all_new_products[s]) :
                 all_new_products[s][i].id \notin IdsOf(previous_products, s)
        /\ \A s \in DOMAIN mail.filtered :
              \A i \in 1..Len(mail.filtered[s]) :
                 mail.filtered[s][i].id \notin IdsOf(previous_products, s)
        /\ \A k \in 1..Len(mail.special) :
              \E s \in DOMAIN all_products :
              \E i \in 1..Len(all_products[s]) :
                 /\ StoreName(s) = mail.special[k].store
                 /\ all_products[s][i].name = mail.special[k].name
                 /\ all_products[s][i].price = mail.special[k].price
                 /\ all_products[s][i].id \notin IdsOf(previous_products, s)

\* a listing known at 99,999 comes back at 100,000 in a run that sends a
\* mail about another listing
C6_Witness ==
    /\ pc = "done"
    /\ mail.outcome = "sent"
    /\ "ikebe" \in DOMAIN previous_products
    /\ \E i \in 1..Len(all_products["ikebe"]) :
       \E j \in 1..Len(previous_products["ikebe"]) :
          /\ all_products["ikebe"][i].id = previous_products["ikebe"][j].id
          /\ YenOf(previous_products["ikebe"][j].price) = 99999
          /\ YenOf(all_products["ikebe"][i].price) = 100000
    /\ "ikebe" \notin DOMAIN mail.filtered

-----------------------------------------------------------------------------
(* C7: in get_all_products a failing source gets the empty list, the       *)
(* entries of the other sources are untouched, the loop goes on to the     *)
(* next source in the fixed order, and the finished snapshot has the five  *)
(* keys.                                                                   *)
C7_FetchFailureIsLocal ==
    [][pc = "fetch" =>
          LET s == StoreOrder[idx]
          IN  /\ fetched'.store = s
              /\ DOMAIN all_products = {StoreOrder[k] : k \in 1..(idx - 1)}
              /\ DOMAIN all_products' = DOMAIN all_products \cup {s}
              /\ \A t \in DOMAIN all_products : all_products'[t] = all_products[t]
              /\ fetched'.outcome = "raised" => all_products'[s] = <<>>
              /\ fetched'.outcome = "ok" => all_products'[s] = fetched'.products
              /\ idx < 5 => pc' = "fetch" /\ idx' = idx + 1
              /\ idx = 5 => /\ pc' = "check"
                            /\ DOMAIN all_products' = Stores
                            /\ Cardinality(DOMAIN all_products') = 5
      ]_vars

\* the second source failed after the first delivered, and the loop went on
\* to the end
C7_Witness ==
    /\ pc = "check"
    /\ DOMAIN all_products = Stores
    /\ Len(all_products["ikebe"]) = 1
    /\ all_products["kurosawa"] = <<>>
    /\ fetched.store = "jguitar"
    /\ fetched.outcome = "raised"
    /\ Len(all_products["qsic"]) = 0

-----------------------------------------------------------------------------
(* C8: whenever send_email was called in a run, save_data is called after  *)
(* it and ends the run: after a delivery, a skip for missing credentials   *)
(* or an SMTP failure alike.                                               *)
C8_SaveFollowsNotification ==
    pc = "done" =>
        \A i \in 1..Len(log) :
            log[i].op = "send_email"
                => /\ i < Len(log)
                   /\ Saved
                   /\ \A k \in 1..i : log[k].op # "save"

\* the SMTP session raised and the snapshot was written nevertheless
C8_Witness ==
    /\ pc = "done"
    /\ Len(log) = 3
    /\ log[2] = [op |-> "send_email", result |-> "failed"]
    /\ log[3] = [op |-> "save", result |-> "ok"]
    /\ data_file.data = all_products

-----------------------------------------------------------------------------
(* C9: a missing or unreadable snapshot file loads as the empty snapshot;  *)
(* a failed write ends the run normally and leaves the previously          *)
(* persisted snapshot in place for the next run.  The last part fails:     *)
(* open(..., 'w') has already truncated the file when the dump raises.     *)
C9_PersistenceFailuresHarmless ==
    [][/\ (pc = "check" /\ pc' = "notify" /\ log'[Len(log')].result # "ok")
            => /\ previous_products' = EmptyDict
               /\ \A s \in DOMAIN all_products :
                     all_products[s] # <<>>
                        => all_new_products'[s] = all_products[s]
       /\ (pc = "save" /\ log'[Len(log')].result # "ok")
            => /\ pc' = "done"
               /\ load_previous_data(data_file', TRUE)
                     = load_previous_data(data_file, TRUE)
      ]_vars

-----------------------------------------------------------------------------
(* C10: is_valid_product rejects exactly the candidates with a name        *)
(* shorter than 5 after trimming, a link not starting with http, a price   *)
(* that is missing, the placeholder or not of the canonical pattern, a     *)
(* name containing a noise term (compared in lower case), fewer than 5     *)
(* non-space characters, or nothing but punctuation.                       *)
C10_HasName(c) == "name" \in DOMAIN c

C10_NameTooShort(c) ==
    ~C10_HasName(c) \/ Len(Trimmed(c.name)) < 5

C10_BadLink(c) ==
    \/ "link" \notin DOMAIN c
    \/ Len(c.link) < 4
    \/ SubSeq(c.link, 1, 4) # <<"h", "t", "t", "p">>

\* ¥, optional whitespace, a digit or comma; or a digit or comma before 円
C10_CanonicalPrice(p) ==
    \E i \in 1..Len(p) :
        \/ /\ p[i] = "¥"
           /\ \E j \in (i + 1)..Len(p) :
                 /\ p[j] \in DigitComma
                 /\ \A k \in (i + 1)..(j - 1) : p[k] \in WhiteSpace
        \/ /\ i < Len(p)
           /\ p[i] \in DigitComma
           /\ p[i + 1] = "円"

C10_BadPrice(c) ==
    \/ "price" \notin DOMAIN c
    \/ Trimmed(c.price) = <<>>
    \/ Trimmed(c.price) = <<"価", "u683c", "確", "認", "u4e2d">>
    \/ ~C10_CanonicalPrice(c.price)

C10_NoiseName(c) ==
    /\ C10_HasName(c)
    /\ \E k \in 1..Len(noise_texts) :
          Contains(Lower(Trimmed(c.name)), noise_texts[k])

C10_FewNonSpace(c) ==
    /\ C10_HasName(c)
    /\ Cardinality({i \in 1..Len(c.name) : c.name[i] # " "}) < 5

C10_OnlyPunctuation(c) ==
    /\ C10_HasName(c)
    /\ \A i \in 1..Len(c.name) :
          c.name[i] = " " \/ c.name[i] \in PunctuationChars

C10_ValidatorRules ==
    ret.st = "validated" =>
        (ret.valid <=> ~ \/ C10_NameTooShort(arg.product)
                         \/ C10_BadLink(arg.product)
                         \/ C10_BadPrice(arg.product)
                         \/ C10_NoiseName(arg.product)
                         \/ C10_FewNonSpace(arg.product)
                         \/ C10_OnlyPunctuation(arg.product))

\* "***---///" with a good link and a good price: only the punctuation rule
\* rejects it
C10_Witness ==
    /\ ret.st = "validated"
    /\ ~ret.valid
    /\ DOMAIN arg.product = {"name", "link", "price"}
    /\ arg.product.name = <<"*", "*", "*", "-", "-", "-", "/", "/", "/">>
    /\ arg.product.link = <<"h", "t", "t", "p", "s", ":", "/", "/", "x", "/", "1">>
    /\ arg.product.price = <<"1", "2", "0", ",", "0", "0", "0", "円">>
    /\ ~C10_NameTooShort(arg.product)
    /\ ~C10_NoiseName(arg.product)
    /\ ~C10_FewNonSpace(arg.product)
    /\ C10_OnlyPunctuation(arg.product)

-----------------------------------------------------------------------------
(* C11: in a run that loaded the empty snapshot, with complete credentials *)
(* and a transport that did not fail, whose current snapshot holds k >= 1  *)
(* records at 100000 or more: each of them is in the novelty output and in *)
(* the filtered set, send_email was called once and delivered, and the     *)
(* count of the subject is k.                                              *)
SendEvents == {i \in 1..Len(log) : log[i].op = "send_email"}

C11_FirstRunReportsAllHighValue ==
    (/\ pc = "done"
     /\ previous_products = EmptyDict
     /\ creds
     /\ mail.outcome # "failed"
     /\ HighCount(all_products) >= 1)
        => /\ mail.outcome = "sent"
           /\ Cardinality(SendEvents) = 1
           /\ \A i \in SendEvents : log[i].result = "sent"
           /\ mail.total = HighCount(all_products)
           /\ \A s \in DOMAIN all_products :
                 (\E i \in 1..Len(all_products[s]) : IsHighValue(all_products[s][i]))
                    => /\ s \in DOMAIN all_new_products
                       /\ all_new_products[s] = all_products[s]
                       /\ s \in DOMAIN mail.filtered
                       /\ IsSelection(mail.filtered[s], all_products[s], IsHighValue)

\* two stores each deliver one record at 100,000 next to nothing known
C11_Witness ==
    /\ pc = "done"
    /\ previous_products = EmptyDict
    /\ creds
    /\ mail.outcome = "sent"
    /\ HighCount(all_products) = 2
    /\ mail.total = 2
    /\ Len(all_products["ikebe"]) = 1
    /\ Len(all_products["kurosawa"]) = 1
    /\ DOMAIN mail.filtered = {"ikebe", "kurosawa"}

-----------------------------------------------------------------------------
(* Harness for send_email: arg is a novelty result, the action applies     *)
(* send_email to it under every credential and transport outcome.          *)

MaxNewLen == 2

MailRecords ==
    {HarnessRecord(<<"a", "1">>, NameGibson, 100000, LinkGibson),
     HarnessRecord(<<"a", "2">>, NameLattice, 99999, LinkLattice),
     HarnessRecord(<<"a", "3">>, NameDoubleTop, 100000, LinkDoubleTop)}

\* a novelty result has no empty list (find_new_products omits them)
MailInit ==
    /\ RunInit
    /\ arg \in {[kind |-> "new_products", all_new |-> d] :
                  d \in DictsOf(ListsOf(MailRecords, MaxNewLen) \ {<<>>})}
    /\ ret = NoRet

ApplySendEmail ==
    /\ arg.kind = "new_products"
    /\ ret.st = "none"
    /\ \E complete \in BOOLEAN : \E smtp_ok \in BOOLEAN :
          ret' = [st |-> "mailed",
                  mail |-> send_email(arg.all_new, complete, smtp_ok)]
    /\ UNCHANGED <<arg, runVars>>

SpecMail == MailInit /\ [][ApplySendEmail]_vars

\* the name, lowercased, contains one of the four keywords
NamesKeyword(name) ==
    \E k \in 1..Len(special_keywords) : Contains(Lower(name), special_keywords[k])

\* the positions of the lines of one kind
LinesOf(body, kind) == {a \in 1..Len(body) : body[a].kind = kind}

\* the store header that opens the section line b belongs to
SectionOf(body, b) ==
    body[MaxOf({h \in LinesOf(body, "store_header") : h < b})].store

(* C12: in the body send_email builds, a new record with a special keyword *)
(* in its name and a price of 100000 or more has a line in the highlight   *)
(* section, which comes before every store section, and an entry in the    *)
(* listing of its store that carries the keyword mark.                     *)
C12_KeywordRecordListedTwice ==
    (ret.st = "mailed" /\ ret.mail.outcome \in {"sent", "failed"}) =>
        LET body == ret.mail.body
        IN  \A s \in DOMAIN arg.all_new :
            \A i \in 1..Len(arg.all_new[s]) :
               LET r == arg.all_new[s][i]
               IN  (NamesKeyword(r.name) /\ IsHighValue(r)) =>
                     /\ \E a \in LinesOf(body, "special") :
                           /\ body[a] = [kind |-> "special", store |-> StoreName(s),
                                         name |-> r.name, price |-> r.price]
                           /\ \A h \in LinesOf(body, "store_header") : a < h
                     /\ \E b \in LinesOf(body, "item") :
                           /\ body[b].name = r.name
                           /\ SectionOf(body, b) = StoreName(s)
                           /\ body[b + 1].kind = "price"
                           /\ body[b + 1].price = r.price
                           /\ body[b + 2].kind = "keyword_mark"

\* the ダブルトップ record at 100,000 is the second high-value record of the
\* second store: highlighted on line 2, listed and marked further down
C12_Witness ==
    /\ ret.st = "mailed"
    /\ ret.mail.outcome = "sent"
    /\ DOMAIN arg.all_new = {"ikebe", "qsic"}
    /\ arg.all_new["ikebe"] = <<HarnessRecord(<<"a", "1">>, NameGibson, 100000, LinkGibson)>>
    /\ arg.all_new["qsic"] =
          <<HarnessRecord(<<"a", "2">>, NameLattice, 99999, LinkLattice),
            HarnessRecord(<<"a", "3">>, NameDoubleTop, 100000, LinkDoubleTop)>>
    /\ ret.mail.body[2] = [kind |-> "special", store |-> StoreName("qsic"),
                           name |-> NameDoubleTop, price |-> FormatPrice(100000)]
    /\ Cardinality(LinesOf(ret.mail.body, "special")) = 1
    /\ Cardinality(LinesOf(ret.mail.body, "keyword_mark")) = 1
    /\ Cardinality(LinesOf(ret.mail.body, "item")) = 2

-----------------------------------------------------------------------------
(* Harness for the price functions: an amount is rendered as line 630      *)
(* renders it and read back; a text is read; a record is classified.       *)

\* every amount up to here, so that the zero-padded groups occur
MaxAmount == 1100

LargeAmounts ==
    {9999, 10000, 99999, 100000, 100001, 120000, 999999, 1000000, 1000001,
     1234567, 20000000, 2147483647}

Amounts == (0..MaxAmount) \cup LargeAmounts

\* price strings without a digit
DigitlessTexts ==
    {<<>>, <<"価", "u683c", "確", "認", "u4e2d">>, <<"A", "S", "K">>, <<"¥">>, <<",">>, <<"¥", " ", ",", ",">>, <<"u6642", "価">>, <<" ", " ">>}

\* valid records: the buildable ones, and two whose price is valid without
\* being the canonical rendering
ClassifiedRecords ==
    ValidProducts
      \cup {[name |-> NameGibson, link |-> LinkGibson, price |-> p] :
               p \in {<<" ", " ", "¥", " ", "5", ",", "0", "0", "0", " ", " ">>, <<"1", "2", "0", ",", "0", "0", "0", "円">>, <<"2", "u672c", " ", "¥", "2", "5", "0", ",", "0", "0", "0">>}}

PriceInit ==
    /\ RunInit
    /\ arg \in {[kind |-> "amount", n |-> n] : n \in Amounts}
          \cup {[kind |-> "price_text", text |-> t] : t \in DigitlessTexts}
          \cup {[kind |-> "record", product |-> r] : r \in ClassifiedRecords}
    /\ ret = NoRet

ApplyRoundTrip ==
    /\ arg.kind = "amount"
    /\ ret.st = "none"
    /\ ret' = [st |-> "read_back", text |-> FormatPrice(arg.n),
               value |-> extract_price_value(FormatPrice(arg.n))]
    /\ UNCHANGED <<arg, runVars>>

ApplyExtract ==
    /\ arg.kind = "price_text"
    /\ ret.st = "none"
    /\ ret' = [st |-> "extracted", value |-> extract_price_value(arg.text)]
    /\ UNCHANGED <<arg, runVars>>

ApplyIsHighValue ==
    /\ arg.kind = "record"
    /\ ret.st = "none"
    /\ ret' = [st |-> "classified",
               high |-> is_high_value_product(arg.product),
               value |-> extract_price_value(arg.product.price)]
    /\ UNCHANGED <<arg, runVars>>

PriceNext == ApplyRoundTrip \/ ApplyExtract \/ ApplyIsHighValue

SpecPrice == PriceInit /\ [][PriceNext]_vars

(* C13: reading back the canonical rendering of n gives n; a valid record  *)
(* is high-value exactly when extract_price_value of its price is at least *)
(* 100000; a text without digits reads as 0.                               *)
C13_PriceRoundTrip ==
    /\ ret.st = "read_back" => ret.value = arg.n
    /\ ret.st = "classified" => (ret.high <=> ret.value >= 100000)
    /\ ret.st = "extracted" => ret.value = 0

\* 1,005 has a zero-padded group
C13_Witness ==
    /\ ret.st = "read_back"
    /\ arg.n = 1005
    /\ ret.text = <<"¥", "1", ",", "0", "0", "5">>
    /\ ret.value = 1005

-----------------------------------------------------------------------------
(* C14: the id is a stable function of (source, name, link) over runs, so  *)
(* a listing extracted with the same name and link as in the previous run  *)
(* is not in the novelty output.  hash() of a str is salted per process:   *)
(* two runs give the same listing different ids.                           *)
C14_SameListingNotNewAgain ==
    pc \in {"notify", "save", "done"} =>
        \A s \in DOMAIN all_new_products :
        \A i \in 1..Len(all_new_products[s]) :
           \A j \in 1..Len(Get(previous_products, s, <<>>)) :
              ~ /\ previous_products[s][j].name = all_new_products[s][i].name
                /\ previous_products[s][j].link = all_new_products[s][i].link

\* the rules of the validator a record of the snapshot must satisfy: a price
\* that is present and canonical, an http link, at least five non-space
\* characters in the name, not only punctuation
WellFormed(r) ==
    /\ ~C10_BadPrice(r)
    /\ ~C10_BadLink(r)
    /\ ~C10_FewNonSpace(r)
    /\ ~C10_OnlyPunctuation(r)

\* the records a parser can build that satisfy them, tabulated once
WellFormedRecords == {r \in BuildableProducts : WellFormed(r)}

-----------------------------------------------------------------------------
(* C15: every record of the snapshot get_all_products builds has a price   *)
(* that is present, is not the placeholder and matches the price pattern,  *)
(* a link starting with http, and a name of at least 5 non-space           *)
(* characters that is not only punctuation; a candidate without a price    *)
(* yields no record.                                                       *)
C15_SnapshotRecordsWellFormed ==
    /\ \A s \in DOMAIN all_products :
       \A i \in 1..Len(all_products[s]) :
          all_products[s][i] \in WellFormedRecords
    /\ \A i \in 1..Len(fetched.products) :
          fetched.products[i].price \notin {<<>>, <<"価", "u683c", "確", "認", "u4e2d">>}

\* the third store's page held a candidate that yields no record (no price
\* found, or a name of four non-space characters); the snapshot holds a
\* record of the first store
C15_Witness ==
    /\ pc = "fetch"
    /\ fetched.store = "shimamura"
    /\ fetched.outcome = "ok"
    /\ fetched.candidates = 1
    /\ fetched.products = <<>>
    /\ all_products["shimamura"] = <<>>
    /\ Len(all_products["ikebe"]) = 1

-----------------------------------------------------------------------------
(* The two line-window parsers.  The page is the list of its trimmed,      *)
(* non-empty text lines; scan.i is the 0-based loop index of the source,   *)
(* so line i of the source is lines[i + 1] here.  examined and matches     *)
(* record what the loop did: the indices it took as loop start, and for    *)
(* every listing found its start line, its price line and the index the    *)
(* loop went on with.                                                      *)

\* first position at which p occurs in s, or 0
IndexOf(s, p) ==
    LET hits == {a \in 1..(Len(s) - Len(p) + 1) :
                    \A k \in 1..Len(p) : s[a + k - 1] = p[k]}
    IN  IF hits = {} THEN 0 ELSE CHOOSE a \in hits : \A b \in hits : a <= b

\* len(s.split())
WordCount(s) ==
    Cardinality({a \in 1..Len(s) :
                    /\ s[a] \notin WhiteSpace
                    /\ (a = 1 \/ s[a - 1] \in WhiteSpace)})

\* min of two integers
Min2(a, b) == IF a < b THEN a ELSE b

\* the least element of a non-empty set of integers
Least(S) == CHOOSE a \in S : \A b \in S : a <= b

NewScan == [st |-> "scanning", i |-> 0, products |-> <<>>,
            examined |-> {}, matches |-> <<>>]

\* the loop index moves to next; nothing else changes
Advance(scan, next) ==
    [scan EXCEPT !.i = next, !.examined = @ \cup {scan.i}]

\* a listing was found: the record is kept when it is valid
Matched(scan, product, price_line, next) ==
    [scan EXCEPT !.i = next,
                 !.examined = @ \cup {scan.i},
                 !.products = IF is_valid_product(product)
                              THEN Append(@, product) ELSE @,
                 !.matches = Append(@, [start |-> scan.i,
                                        price_line |-> price_line,
                                        resume |-> next])]

\* ---- parse_kurosawa_products_fixed ----

KurosawaBase == <<"h", "t", "t", "p", "s", ":", "/", "/", "s", "h", "o", "p", ".", "k", "u", "r", "o", "s", "a", "w", "a", "g", "a", "k", "k", "i", ".", "c", "o", "m">>

brand_patterns ==
    <<<<"J", "u", "a", "n", " ", "H", "e", "r", "n", "a", "n", "d", "e", "z">>, <<"G", "i", "b", "s", "o", "n">>, <<"C", "o", "r", "d", "o", "b", "a">>, <<"A", "R", "I", "A">>, <<"Y", "A", "M", "A", "H", "A">>, <<"u305d", "u306e", "他">>,
      <<"u685c", "井", " ", "u6b63", "毅">>>>

kurosawa_skip == <<<<"u5728", "庫">>, <<"状", "u614b">>, <<"ポ", "イ", "ン", "ト">>, <<"u9001", "料">>>>

\* re.search(r'¥\s*([\d,]+)', line): position of the first digit or comma of
\* group 1 of the leftmost match, or 0
KurosawaPriceStart(line) ==
    LET hits == {a \in 1..Len(line) :
                    /\ line[a] = "¥"
                    /\ LET b == RunEnd(line, a + 1, WhiteSpace)
                       IN  b <= Len(line) /\ line[b] \in DigitComma}
    IN  IF hits = {} THEN 0 ELSE RunEnd(line, Least(hits) + 1, WhiteSpace)

\* f"¥{price_match.group(1)}"
KurosawaPrice(line) ==
    LET b == KurosawaPriceStart(line)
    IN  <<"¥">> \o SubSeq(line, b, RunEnd(line, b, DigitComma) - 1)

\* one iteration of the while loop, lines 246-304
kurosawa_step(salt, lines, links, scan) ==
    LET i    == scan.i
        line == lines[i + 1]
    IN  IF ~ (/\ \E k \in 1..Len(brand_patterns) : Contains(line, brand_patterns[k])
              /\ WordCount(line) <= 4)
        THEN Advance(scan, i + 1)
        ELSE IF ~ (i + 1 < Len(lines))
        THEN Advance(scan, i + 1)
        ELSE
        LET product_name_line == lines[i + 2] IN
        IF \E k \in 1..Len(kurosawa_skip) :
              Contains(Lower(product_name_line), kurosawa_skip[k])
        THEN Advance(scan, i + 1)
        ELSE
        LET window == {j \in (i + 1)..(Min2(i + 8, Len(lines)) - 1) :
                          KurosawaPriceStart(lines[j + 1]) # 0} IN
        IF window = {}
        THEN Advance(scan, i + 2)
        ELSE
        LET j           == Least(window)
            price       == KurosawaPrice(lines[j + 1])
            product_url == IF Len(scan.products) < Len(links)
                           THEN links[Len(scan.products) + 1]
                           ELSE KurosawaBase
            full_name   == Strip(line \o <<" ">> \o product_name_line)
            product     == create_product_info(salt, "kurosawa", full_name, price,
                                               product_url, StoreName("kurosawa"))
        IN  Matched(scan, product, j, i + 2)

\* ---- parse_qsic_products_fixed ----

QsicBase == <<"h", "t", "t", "p", "s", ":", "/", "/", "w", "w", "w", ".", "q", "s", "i", "c", ".", "j", "p">>

ReturnableMark == <<"u3010", "返", "品", "O", "K", "u3011">>

TaxIncluded == <<"円", "(", "u7a0e", "込", ")">>

\* re.search(r'\[([^\]]+)\]', line).group(1), or the empty text
QsicCondition(line) ==
    LET hits == {a \in 1..Len(line) :
                    /\ line[a] = "["
                    /\ a + 1 <= Len(line) /\ line[a + 1] # "]"
                    /\ \E b \in (a + 2)..Len(line) : line[b] = "]"}
    IN  IF hits = {} THEN <<>>
        ELSE LET a == Least(hits)
                 b == Least({c \in (a + 2)..Len(line) : line[c] = "]"})
             IN  SubSeq(line, a + 1, b - 1)

\* line.split(']', 1)[-1].strip()
QsicDescription(line) ==
    LET b == IndexOf(line, <<"]">>)
    IN  Strip(SubSeq(line, b + 1, Len(line)))

\* re.search(r'([\d,]+)円\(税込\)', line): start of group 1 of the leftmost
\* match, or 0
QsicPriceStart(line) ==
    LET hits == {a \in 1..Len(line) :
                    /\ line[a] \in DigitComma
                    /\ LET e == RunEnd(line, a, DigitComma)
                       IN  /\ e + Len(TaxIncluded) - 1 <= Len(line)
                           /\ SubSeq(line, e, e + Len(TaxIncluded) - 1) = TaxIncluded}
    IN  IF hits = {} THEN 0 ELSE Least(hits)

\* one iteration of the while loop, lines 346-398
qsic_step(salt, lines, scan) ==
    LET i    == scan.i
        line == lines[i + 1]
    IN  IF ~ (/\ Contains(line, ReturnableMark)
              /\ Contains(line, <<"[">>) /\ Contains(line, <<"]">>))
        THEN Advance(scan, i + 1)
        ELSE
        LET product_name == Strip(SubSeq(line, 1, IndexOf(line, ReturnableMark) - 1))
            has_condition == /\ i + 1 < Len(lines)
                             /\ StartsWith(lines[i + 2], <<"[">>)
                             /\ Contains(lines[i + 2], <<"]">>)
            condition   == IF has_condition THEN QsicCondition(lines[i + 2]) ELSE <<>>
            description == IF has_condition THEN QsicDescription(lines[i + 2]) ELSE <<>>
            window == {j \in (i + 1)..(Min2(i + 4, Len(lines)) - 1) :
                          Contains(lines[j + 1], TaxIncluded)}
        IN  IF window = {} \/ QsicPriceStart(lines[Least(window) + 1]) = 0
            THEN Advance(scan, i + 1)
            ELSE
            LET j     == Least(window)
                b     == QsicPriceStart(lines[j + 1])
                price == <<"¥">> \o SubSeq(lines[j + 1], b,
                                           RunEnd(lines[j + 1], b, DigitComma) - 1)
                full_name == product_name
                               \o (IF condition # <<>>
                                   THEN <<" ", "[">> \o condition \o <<"]">>
                                   ELSE <<>>)
                               \o (IF description # <<>>
                                   THEN <<" ">> \o description ELSE <<>>)
                product == create_product_info(salt, "qsic", full_name, price,
                                               QsicBase, StoreName("qsic"))
            IN  Matched(scan, product, j, i + 3)

\* ---- harness ----

MaxLines == 4

KurosawaLines == {<<"G", "i", "b", "s", "o", "n">>, <<"J", "-", "4", "5", " ", "V", "i", "n", "t", "a", "g", "e", " ", "1", "9", "6", "5">>, <<"¥", "1", "0", "0", ",", "0", "0", "0">>, <<"u5728", "庫", "u3042", "り">>}

QsicLines ==
    {<<"H", "a", "u", "s", "e", "r", " ", "I", "I", "I", " ", "1", "9", "8", "5", "u3010", "返", "品", "O", "K", "u3011", "[", "U", "S", "E", "D", "]">>, <<"[", "U", "S", "E", "D", "]", " ", "s", "p", "r", "u", "c", "e", " ", "6", "5", "0", "m", "m">>,
     <<"1", "2", "0", ",", "0", "0", "0", "円", "(", "u7a0e", "込", ")">>, <<"S", "O", "L", "D", " ", "O", "U", "T">>}

ScanInit ==
    /\ RunInit
    /\ arg \in {[kind |-> "kurosawa", lines |-> l, links |-> k] :
                   l \in ListsOf(KurosawaLines, MaxLines),
                   k \in {<<>>, <<LinkGibson>>}}
          \cup {[kind |-> "qsic", lines |-> l, links |-> <<>>] :
                   l \in ListsOf(QsicLines, MaxLines)}
    /\ ret = NoRet

StartScan ==
    /\ arg.kind \in {"kurosawa", "qsic"}
    /\ ret.st = "none"
    /\ ret' = NewScan
    /\ UNCHANGED <<arg, runVars>>

KurosawaIteration ==
    /\ arg.kind = "kurosawa"
    /\ ret.st = "scanning"
    /\ ret.i < Len(arg.lines)
    /\ ret' = kurosawa_step(hashseed, arg.lines, arg.links, ret)
    /\ UNCHANGED <<arg, runVars>>

QsicIteration ==
    /\ arg.kind = "qsic"
    /\ ret.st = "scanning"
    /\ ret.i < Len(arg.lines)
    /\ ret' = qsic_step(hashseed, arg.lines, ret)
    /\ UNCHANGED <<arg, runVars>>

\* the loop ends; parse_kurosawa_products_fixed returns products[:15]
ScanReturn ==
    /\ arg.kind \in {"kurosawa", "qsic"}
    /\ ret.st = "scanning"
    /\ ret.i >= Len(arg.lines)
    /\ ret' = [ret EXCEPT !.st = "scanned",
                          !.products = IF arg.kind = "kurosawa"
                                       THEN Take(@, 15) ELSE @]
    /\ UNCHANGED <<arg, runVars>>

ScanNext == StartScan \/ KurosawaIteration \/ QsicIteration \/ ScanReturn

SpecScan == ScanInit /\ [][ScanNext]_vars

\* the lines a listing consumed: from its start line to its price line
Consumed(match) == match.start..match.price_line

\* every iteration moves the loop index forward, so the loop ends
ScanIndexIncreases ==
    [][(ret.st = "scanning" /\ ret'.st = "scanning") => ret'.i > ret.i]_vars

(* C16: in both line-window parsers, after a listing is matched the scan   *)
(* resumes at the first line after its price line: the step passes over no *)
(* line the listing did not consume, and no consumed line is examined      *)
(* again as a start or serves as the price line of another listing.  Both  *)
(* parsers advance by a fixed step (2 and 3) instead.                      *)
C16_ScanResumesAfterConsumedLines ==
    ret.st \in {"scanning", "scanned"} =>
        \A k \in 1..Len(ret.matches) :
           LET match == ret.matches[k]
           IN  /\ match.resume = match.price_line + 1
               /\ \A n \in match.start..(match.resume - 1) : n \in Consumed(match)
               /\ \A n \in ret.examined : n \in Consumed(match) => n = match.start
               /\ \A l \in 1..Len(ret.matches) :
                     l # k => ret.matches[l].price_line \notin Consumed(match)

-----------------------------------------------------------------------------
(* Runs over catalogs that do not change: every successful fetch of a      *)
(* source returns the same listings, every process draws the same hash     *)
(* salt, and the snapshot file is read and written without error.  A       *)
(* fetch may still raise in one run and succeed in the next, and the       *)
(* SMTP session may still fail.                                            *)

\* what each source's page lists, in every run
StableCatalog(store) ==
    CASE store = "ikebe" ->
            <<[name |-> NameGibson, price |-> FormatPrice(100000),
               link |-> LinkGibson]>>
      [] store = "kurosawa" ->
            <<[name |-> NameLattice, price |-> FormatPrice(100000),
               link |-> LinkLattice]>>
      [] OTHER -> <<>>

StableListings ==
    UNION { { ListingKey(s, StableCatalog(s)[i]) : i \in 1..Len(StableCatalog(s)) }
            : s \in Stores }

StableInit == RunInitWith(EmptyHistory) /\ arg = NoArg /\ ret = NoRet

StableStartRun == StartRun /\ hashseed' = hashseed

StableFetchStore ==
    /\ FetchStore
    /\ fetched'.outcome = "ok" =>
          /\ fetched'.candidates = Len(StableCatalog(fetched'.store))
          /\ fetched'.products =
                ParseCandidates(hashseed, fetched'.store,
                                StableCatalog(fetched'.store))

StableLoadAndDiff == LoadAndDiff /\ LastLog'.result # "error"

StableSave == Save /\ LastLog'.result = "ok"

StableNext ==
    \/ StableStartRun
    \/ StableFetchStore
    \/ ReturnEmpty
    \/ StableLoadAndDiff
    \/ Notify
    \/ StableSave

\* The scheduler starts the program again and again, and a started run goes
\* on to its end: every step of check_for_updates that can be taken is taken.
\* For the step from "notify", which is enabled exactly when pc = "notify" and
\* always leaves it, weak fairness is written by its meaning.
RunsGoOn ==
    /\ WF_vars(StableStartRun)
    /\ WF_vars(StableFetchStore)
    /\ WF_vars(ReturnEmpty)
    /\ WF_vars(StableLoadAndDiff)
    /\ []<>(pc # "notify")
    /\ WF_vars(StableSave)

SpecStable == StableInit /\ [][StableNext]_vars /\ RunsGoOn

\* C17: with stable ids and an error-free snapshot file, a listing that stays
\* in its source's catalog is included in at most one sent notification,
\* whichever fetches fail and recover: no listing is in a sent notification
\* after an earlier sent notification already included it.
C17_AtMostOneNotification == reported.again = {}

\* the listing is new and high-value in the run that is about to notify, and
\* the credentials are complete: send_email will hand it to the transport
NewHighValue(listing) ==
    /\ pc = "notify"
    /\ creds
    /\ listing \in ListingsIn(filter_high_value_products(all_new_products))

\* the listing is in a notification the SMTP session delivered
Delivered(listing) ==
    /\ mail.outcome = "sent"
    /\ listing \in ListingsIn(mail.filtered)

\* the mail transport succeeds in infinitely many runs
TransportSucceedsAgainAndAgain == []<>(mail.outcome = "sent")

\* C18: a high-value listing that is new in some run and stays in its source's
\* catalog is eventually included in a delivered notification, when the mail
\* transport succeeds in infinitely many runs: a failed send does not leave
\* the listing unreported forever.
C18_NewHighValueEventuallyDelivered ==
    TransportSucceedsAgainAndAgain =>
        \A listing \in StableListings : NewHighValue(listing) ~> Delivered(listing)

-----------------------------------------------------------------------------
(* The validator and the special keywords                                  *)

\* the name carries the k-th special keyword, as has_special_keywords tests it
CarriesKeyword(name, k) == Contains(Lower(name), Lower(special_keywords[k]))

\* the candidate has a name, an http link and a price in the form line 630
\* renders
C19_WellFormedButForName(c) ==
    /\ C10_HasName(c)
    /\ ~C10_BadLink(c)
    /\ "price" \in DOMAIN c
    /\ c.price # <<>>
    /\ c.price = FormatPrice(extract_price_value(c.price))

\* C19: the validator does not reject a candidate because of a special keyword
\* in its name: whenever a candidate with an http link and a canonical price
\* carries one of the four keywords, the validator accepts it or accepts the
\* same candidate under another name that carries that keyword.
C19_EveryKeywordHasAValidName ==
    (ret.st = "validated" /\ C19_WellFormedButForName(arg.product)) =>
        \A k \in 1..Len(special_keywords) :
            CarriesKeyword(arg.product.name, k) =>
                \/ ret.valid
                \/ \E n \in CandidateNames \ {Absent} :
                      /\ CarriesKeyword(n, k)
                      /\ is_valid_product([arg.product EXCEPT !.name = n])

====
